---- MODULE Spec2Model ----
(***************************************************************************)
(* The in-memory analytics aggregator of server.js: the `analytics` object *)
(* (totalEntries, totalUsers, activeUsers, dailyStats, userSessions), the  *)
(* request handlers that update it and the hourly cleanup callback.        *)
(*                                                                         *)
(* Node runs every handler and timer callback to completion on one thread, *)
(* so each handler is one atomic action.  A handler finishes within the    *)
(* clock reading at which it starts: the Date.now() / new Date() calls of  *)
(* one handler all read `now`.                                             *)
(*                                                                         *)
(* Time is counted in units of 30 minutes, the greatest common divisor of  *)
(* the three horizons of the code (30 minutes, 1 hour, 24 hours), and a    *)
(* calendar day is 48 such units (local days without a DST change).        *)
(***************************************************************************)
EXTENDS Integers, FiniteSets, Sequences, TLC

VARIABLES
    now,           \* the clock: what Date.now() returns
    totalEntries,  \* analytics.totalEntries
    totalUsers,    \* analytics.totalUsers
    activeUsers,   \* analytics.activeUsers : userId -> [lastSeen, sessionId]
    dailyStats,    \* analytics.dailyStats  : date -> [entries, users]
    userSessions,  \* analytics.userSessions: sessionId -> [userId, startTime]
    resp,          \* the request served last and the response sent for it
    accepted,      \* POST requests answered with success so far
    inflight,      \* TrackEntry requests received together, not yet served
    burst          \* bookkeeping of that batch: its size and totalEntries before it

vars == <<now, totalEntries, totalUsers, activeUsers, dailyStats, userSessions,
          resp, accepted, inflight, burst>>

aggregate == <<totalEntries, totalUsers, activeUsers, dailyStats, userSessions>>

----------------------------------------------------------------------------
(* Program constants, in units of 30 minutes.                              *)

ThirtyMinutes == 1
OneHour == 2
OneDay == 48
RecentDays == 7

(* Bounds of the model.                                                    *)

MaxRequests == 2    \* POST requests the clients get accepted
MaxDay == 1         \* days the clock runs through after the first
MaxCount == 1       \* largest entryCount of a request
NumRandom == 2      \* distinct outcomes of Math.random()
MaxBurst == 3       \* TrackEntry requests received together

----------------------------------------------------------------------------
(* Identifiers.  Every id is a triple <<kind, component, time>> so that    *)
(* ids of all origins compare.                                             *)

Absent == <<"absent", 0, 0>>     \* the field is missing from the body
EmptyStr == <<"", 0, 0>>         \* the field is the empty string

\* !userId, !sessionId
Falsy(id) == id \in {Absent, EmptyStr}

Randoms == 1..NumRandom

\* 'user_' + Math.random().toString(36).substr(2, 9), without the time
generateUserId_noTime(r) == <<"user", r, 0>>

\* 'user_' + Math.random().toString(36).substr(2, 9) + '_' + Date.now()
generateUserId(r) == <<"user", r, now>>

\* 'session_' + Math.random().toString(36).substr(2, 12) + '_' + Date.now()
generateSessionId(r) == <<"session", r, now>>

\* an id a client makes up itself, never handed out by the server
ClientUserIds == {<<"cuser", 1, 0>>}
ClientSessionIds == {<<"csession", 1, 0>>}

\* entryCount of a request: an "undo" of one entry, zero, or up to MaxCount
EntryCounts == (0 - 1)..MaxCount

----------------------------------------------------------------------------
(* Map and Date primitives.                                                *)

EmptyMap == [k \in {} |-> 0]

\* Map.prototype.has
MapHas(m, k) == k \in DOMAIN m

\* Map.prototype.set
MapSet(m, k, v) == [x \in DOMAIN m \cup {k} |-> IF x = k THEN v ELSE m[x]]

\* Map.prototype.delete, for every key of ks
MapDelete(m, ks) == [x \in DOMAIN m \ ks |-> m[x]]

\* new Date(t).toDateString(): the local calendar day of t, as a day number
toDateString(t) == t \div OneDay

\* date.setDate(date.getDate() - i); date.toDateString()
dateMinusDays(t, i) == toDateString(t - i * OneDay)

----------------------------------------------------------------------------
(* Helper functions of server.js.                                          *)

\* the scan with lastSeen >= thirtyMinutesAgo
ActiveNow_inclusive(users, t) ==
    {u \in DOMAIN users : users[u].lastSeen >= t - ThirtyMinutes}

\* getActiveUsersCount: the users the scan counts
ActiveNow(users, t) ==
    {u \in DOMAIN users : users[u].lastSeen > t - ThirtyMinutes}

\* getActiveUsersCount: the users the scan deletes (the else branch)
Evicted(users, t) == DOMAIN users \ ActiveNow(users, t)

\* return analytics.activeUsers.size, read before the scan
getActiveUsersCount_size(users, t) == Cardinality(DOMAIN users)

\* getActiveUsersCount: the value returned, activeCount
getActiveUsersCount(users, t) == Cardinality(ActiveNow(users, t))

\* getTodaysStats
getTodaysStats(stats, t) ==
    LET today == toDateString(t) IN
    IF ~MapHas(stats, today)
    THEN [entries |-> 0, uniqueUsers |-> 0]
    ELSE [entries |-> stats[today].entries,
          uniqueUsers |-> Cardinality(stats[today].users)]

\* updateDailyStats with the count added only to a row that exists already
updateDailyStats_newRowAtZero(stats, t, userId, entryCount) ==
    LET today == toDateString(t) IN
    IF MapHas(stats, today)
    THEN MapSet(stats, today, [entries |-> stats[today].entries + entryCount,
                               users |-> stats[today].users \cup {userId}])
    ELSE MapSet(stats, today, [entries |-> 0, users |-> {userId}])

\* updateDailyStats
updateDailyStats(stats, t, userId, entryCount) ==
    LET today == toDateString(t)
        row == IF MapHas(stats, today) THEN stats[today]
               ELSE [entries |-> 0, users |-> {}]
    IN MapSet(stats, today, [entries |-> row.entries + entryCount,
                             users |-> row.users \cup {userId}])

\* the entry of recentStats pushed for loop index i
recentEntry(stats, t, i) ==
    LET dateString == dateMinusDays(t, i) IN
    [date |-> dateString,
     entries |-> IF MapHas(stats, dateString) THEN stats[dateString].entries ELSE 0,
     uniqueUsers |-> IF MapHas(stats, dateString)
                     THEN Cardinality(stats[dateString].users) ELSE 0]

\* for (let i = 0; i <= 6; i++) recentStats.push(...)
recentStats_newestFirst(stats, t) ==
    [k \in 1..RecentDays |-> recentEntry(stats, t, k - 1)]

\* for (let i = 6; i >= 0; i--) recentStats.push(...)
recentStats(stats, t) ==
    [k \in 1..RecentDays |-> recentEntry(stats, t, RecentDays - k)]

----------------------------------------------------------------------------
(* Requests and responses.                                                 *)

Request(op, userId, sessionId, entryCount) ==
    [op |-> op, userId |-> userId, sessionId |-> sessionId, entryCount |-> entryCount]

NoBurst == [n |-> 0, base |-> 0, userId |-> Absent, at |-> 0]

NoResp == [req |-> Request("none", Absent, Absent, 0), status |-> 0, body |-> <<>>]

Init ==
    /\ now = 0
    /\ totalEntries = 0
    /\ totalUsers = 0
    /\ activeUsers = EmptyMap
    /\ dailyStats = EmptyMap
    /\ userSessions = EmptyMap
    /\ resp = NoResp
    /\ accepted = 0
    /\ inflight = 0
    /\ burst = NoBurst

----------------------------------------------------------------------------
(* POST /api/init-session                                                  *)

\* if (!userId)
IsNewUser_absentOnly(users, existingUserId) == Falsy(existingUserId)

\* if (!userId || !analytics.activeUsers.has(userId))
IsNewUser(users, existingUserId) ==
    Falsy(existingUserId) \/ ~MapHas(users, existingUserId)

\* analytics.activeUsers.set(userId, {lastSeen: now, sessionId: sessionId})
InitSessionUsers(users, userId, sessionId, t) ==
    MapSet(users, userId, [lastSeen |-> t, sessionId |-> sessionId])

\* init-session keeping one session per user
InitSessionSessions_single(sessions, userId, sessionId, t) ==
    MapSet(MapDelete(sessions, {x \in DOMAIN sessions : sessions[x].userId = userId}),
           sessionId, [userId |-> userId, startTime |-> t])

\* analytics.userSessions.set(sessionId, {userId: userId, startTime: now})
InitSessionSessions(sessions, userId, sessionId, t) ==
    MapSet(sessions, sessionId, [userId |-> userId, startTime |-> t])

InitSession(existingUserId, ru, rs) ==
    LET newUser == IsNewUser(activeUsers, existingUserId)
        userId == IF newUser THEN generateUserId(ru) ELSE existingUserId
        sessionId == generateSessionId(rs)
    IN
    /\ accepted < MaxRequests
    /\ accepted' = accepted + 1
    /\ totalUsers' = IF newUser THEN totalUsers + 1 ELSE totalUsers
    /\ activeUsers' = InitSessionUsers(activeUsers, userId, sessionId, now)
    /\ userSessions' = InitSessionSessions(userSessions, userId, sessionId, now)
    /\ dailyStats' = updateDailyStats(dailyStats, now, userId, 0)
    /\ resp' = [req |-> Request("InitSession", existingUserId, Absent, 0),
                status |-> 200,
                body |-> [success |-> TRUE, userId |-> userId,
                          sessionId |-> sessionId, timestamp |-> now]]
    /\ UNCHANGED <<now, totalEntries, inflight, burst>>

----------------------------------------------------------------------------
(* POST /api/heartbeat                                                     *)

\* the update of analytics.activeUsers
HeartbeatUsers(users, userId, sessionId, t) ==
    IF MapHas(users, userId)
    THEN [users EXCEPT ![userId].lastSeen = t]
    ELSE MapSet(users, userId, [lastSeen |-> t, sessionId |-> sessionId])

\* the update of analytics.userSessions with set() in both branches
HeartbeatSessions_restart(sessions, userId, sessionId, t) ==
    MapSet(sessions, sessionId, [userId |-> userId, startTime |-> t])

\* the update of analytics.userSessions
HeartbeatSessions(sessions, userId, sessionId, t) ==
    IF MapHas(sessions, sessionId)
    THEN sessions
    ELSE MapSet(sessions, sessionId, [userId |-> userId, startTime |-> t])

\* if (!userId && !sessionId)
HeartbeatInvalid_both(userId, sessionId) == Falsy(userId) /\ Falsy(sessionId)

\* if (!userId || !sessionId)
HeartbeatInvalid(userId, sessionId) == Falsy(userId) \/ Falsy(sessionId)

\* the handler with updateDailyStats(userId), as in init-session
HeartbeatStats_touch(stats, t, userId) == updateDailyStats(stats, t, userId, 0)

\* the handler never calls updateDailyStats
HeartbeatStats(stats, t, userId) == stats

Heartbeat(userId, sessionId) ==
    /\ IF HeartbeatInvalid(userId, sessionId)
       THEN /\ resp' = [req |-> Request("Heartbeat", userId, sessionId, 0),
                        status |-> 400,
                        body |-> [success |-> FALSE,
                                  error |-> "userId and sessionId required"]]
            /\ UNCHANGED <<activeUsers, userSessions, dailyStats, accepted>>
       ELSE /\ accepted < MaxRequests
            /\ accepted' = accepted + 1
            /\ dailyStats' = HeartbeatStats(dailyStats, now, userId)
            /\ activeUsers' = HeartbeatUsers(activeUsers, userId, sessionId, now)
            /\ userSessions' = HeartbeatSessions(userSessions, userId, sessionId, now)
            /\ resp' = [req |-> Request("Heartbeat", userId, sessionId, 0),
                        status |-> 200,
                        body |-> [success |-> TRUE, timestamp |-> now]]
    /\ UNCHANGED <<now, totalEntries, totalUsers, inflight, burst>>

----------------------------------------------------------------------------
(* POST /api/track-entry                                                   *)

\* analytics.totalEntries = entryCount
AddEntries_assign(total, entryCount) == entryCount

\* analytics.totalEntries -= entryCount
AddEntries_subtract(total, entryCount) == total - entryCount

\* analytics.totalEntries += entryCount
AddEntries(total, entryCount) == total + entryCount

\* the update of analytics.activeUsers as heartbeat does it, inserting a
\* record for a user that is not tracked
TrackEntryUsers_upsert(users, userId, t) ==
    IF MapHas(users, userId)
    THEN [users EXCEPT ![userId].lastSeen = t]
    ELSE MapSet(users, userId, [lastSeen |-> t, sessionId |-> Absent])

\* if (analytics.activeUsers.has(userId)) ... .lastSeen = now
TrackEntryUsers(users, userId, t) ==
    IF MapHas(users, userId)
    THEN [users EXCEPT ![userId].lastSeen = t]
    ELSE users

\* if (userId === undefined)
TrackEntryInvalid_absentOnly(userId) == userId = Absent

\* if (!userId)
TrackEntryInvalid(userId) == Falsy(userId)

\* the handler, for the body {userId, entryCount}
TrackEntryHandler(userId, entryCount) ==
    /\ IF TrackEntryInvalid(userId)
       THEN /\ resp' = [req |-> Request("TrackEntry", userId, Absent, entryCount),
                        status |-> 400,
                        body |-> [success |-> FALSE, error |-> "userId required"]]
            /\ UNCHANGED <<totalEntries, activeUsers, dailyStats>>
       ELSE /\ totalEntries' = AddEntries(totalEntries, entryCount)
            /\ activeUsers' = TrackEntryUsers(activeUsers, userId, now)
            /\ dailyStats' = updateDailyStats(dailyStats, now, userId, entryCount)
            /\ resp' = [req |-> Request("TrackEntry", userId, Absent, entryCount),
                        status |-> 200,
                        body |-> [success |-> TRUE,
                                  totalEntries |-> totalEntries',
                                  timestamp |-> now]]
    /\ UNCHANGED <<now, totalUsers, userSessions>>

TrackEntry(userId, entryCount) ==
    /\ inflight = 0
    /\ TrackEntryHandler(userId, entryCount)
    /\ IF TrackEntryInvalid(userId)
       THEN UNCHANGED accepted
       ELSE accepted < MaxRequests /\ accepted' = accepted + 1
    /\ UNCHANGED <<inflight, burst>>

----------------------------------------------------------------------------
(* GET /api/analytics and GET /admin                                       *)

\* getActiveUsersCount's effect on analytics.activeUsers
ScanUsers(users, t) == MapDelete(users, Evicted(users, t))

\* getTodaysStats creating today's row when it is absent
ReadStats_lazyCreate(stats, t) ==
    IF MapHas(stats, toDateString(t)) THEN stats
    ELSE MapSet(stats, toDateString(t), [entries |-> 0, users |-> {}])

\* getTodaysStats and the recentStats loop read analytics.dailyStats with
\* Map.get and never write it
ReadStats(stats, t) == stats

Snapshot ==
    /\ activeUsers' = ScanUsers(activeUsers, now)
    /\ resp' = [req |-> Request("Snapshot", Absent, Absent, 0),
                status |-> 200,
                body |-> [success |-> TRUE,
                          totalEntries |-> totalEntries,
                          totalUsers |-> totalUsers,
                          activeUsers |-> getActiveUsersCount(activeUsers, now),
                          today |-> getTodaysStats(dailyStats, now),
                          recentStats |-> recentStats(dailyStats, now),
                          timestamp |-> now]]
    /\ dailyStats' = ReadStats(dailyStats, now)
    /\ UNCHANGED <<now, totalEntries, totalUsers, userSessions,
                   accepted, inflight, burst>>

Admin ==
    /\ activeUsers' = ScanUsers(activeUsers, now)
    /\ resp' = [req |-> Request("Admin", Absent, Absent, 0),
                status |-> 200,
                body |-> [totalEntries |-> totalEntries,
                          totalUsers |-> totalUsers,
                          activeUsers |-> getActiveUsersCount(activeUsers, now),
                          today |-> getTodaysStats(dailyStats, now)]]
    /\ dailyStats' = ReadStats(dailyStats, now)
    /\ UNCHANGED <<now, totalEntries, totalUsers, userSessions,
                   accepted, inflight, burst>>

----------------------------------------------------------------------------
(* The setInterval callback.  The phase of the timer against the requests  *)
(* is arbitrary, so the callback may run at any clock reading.             *)

\* Clean up old active users
CleanupUsers(users, t) ==
    MapDelete(users, {u \in DOMAIN users : users[u].lastSeen < t - OneHour})

\* the session loop with the users' horizon, oneHourAgo
CleanupSessions_hour(sessions, t) ==
    MapDelete(sessions, {s \in DOMAIN sessions : sessions[s].startTime < t - OneHour})

\* the session loop with a horizon of two days
CleanupSessions_twoDays(sessions, t) ==
    MapDelete(sessions, {s \in DOMAIN sessions : sessions[s].startTime < t - 2 * OneDay})

\* Clean up old sessions
CleanupSessions(sessions, t) ==
    MapDelete(sessions, {s \in DOMAIN sessions : sessions[s].startTime < t - OneDay})

\* the callback also taking the users it deletes out of the days' user sets
CleanupStats_forget(stats, users, t) ==
    [d \in DOMAIN stats |->
        [stats[d] EXCEPT !.users = @ \ (DOMAIN users \ DOMAIN CleanupUsers(users, t))]]

\* the callback also deleting the rows of the days before today
CleanupStats_dropOldDays(stats, users, t) ==
    MapDelete(stats, {d \in DOMAIN stats : d < toDateString(t)})

\* the callback reads and writes activeUsers and userSessions only
CleanupStats(stats, users, t) == stats

Cleanup ==
    /\ activeUsers' = CleanupUsers(activeUsers, now)
    /\ userSessions' = CleanupSessions(userSessions, now)
    /\ dailyStats' = CleanupStats(dailyStats, activeUsers, now)
    /\ resp' = [req |-> Request("Cleanup", Absent, Absent, 0),
                status |-> 0, body |-> <<>>]
    /\ UNCHANGED <<now, totalEntries, totalUsers, accepted, inflight, burst>>

----------------------------------------------------------------------------
(* The clock.                                                              *)

\* Requests arrive during the first hour of the first day and the first half
\* hour of a later day: the clock is read at every 30 minutes of that time.
Tick ==
    /\ now % OneDay < (IF toDateString(now) = 0 THEN OneHour ELSE ThirtyMinutes)
    /\ now' = now + 1
    /\ resp' = NoResp
    /\ UNCHANGED <<aggregate, accepted, inflight, burst>>

\* No request arrives for the rest of the day: the clock is read next at the
\* following midnight, where the date changes.
TickDay ==
    /\ toDateString(now) < MaxDay
    /\ now' = (toDateString(now) + 1) * OneDay
    /\ resp' = NoResp
    /\ UNCHANGED <<aggregate, accepted, inflight, burst>>

----------------------------------------------------------------------------
(* A batch of TrackEntry(userId, entryCount = 1) requests received         *)
(* together; the event loop serves them one at a time, in any order with   *)
(* the other handlers.                                                     *)

IssueBurst(userId, n) ==
    /\ burst = NoBurst
    /\ accepted < MaxRequests
    /\ accepted' = accepted + 1
    /\ inflight' = n
    /\ burst' = [n |-> n, base |-> totalEntries, userId |-> userId, at |-> now]
    /\ resp' = NoResp
    /\ UNCHANGED <<now, aggregate>>

\* a TrackEntry request served before the batch arrives
TrackEntryBefore(userId, entryCount) ==
    /\ burst = NoBurst
    /\ TrackEntry(userId, entryCount)

ServeBurst ==
    /\ inflight > 0
    /\ TrackEntryHandler(burst.userId, 1)
    /\ inflight' = inflight - 1
    /\ UNCHANGED <<burst, accepted>>

----------------------------------------------------------------------------

(* What the clients send.  The values of Math.random() matter only through *)
(* the equality of the ids built from them, so a draw is one of the values *)
(* already drawn at this clock reading or the next unused one.             *)

Min(a, b) == IF a < b THEN a ELSE b

UserDraws ==
    LET today == toDateString(now)
        seen == IF MapHas(dailyStats, today) THEN dailyStats[today].users ELSE {}
        used == {u \in seen : u[1] = "user" /\ u[3] = now}
    IN 1..Min(NumRandom, Cardinality(used) + 1)

SessionDraws ==
    LET used == {s \in DOMAIN userSessions : s[1] = "session" /\ s[3] = now}
    IN 1..Min(NumRandom, Cardinality(used) + 1)

KnownUserIds == ClientUserIds \cup DOMAIN activeUsers

KnownSessionIds ==
    ClientSessionIds \cup DOMAIN userSessions
        \cup {activeUsers[u].sessionId : u \in DOMAIN activeUsers}

HeartbeatBodies ==
    (KnownUserIds \X KnownSessionIds)
        \cup ({EmptyStr} \X ClientSessionIds)
        \cup (ClientUserIds \X {Absent})

TrackEntryBodies ==
    (KnownUserIds \X EntryCounts) \cup ({Absent, EmptyStr} \X {MaxCount})

Next ==
    \/ \E e \in {Absent} \cup KnownUserIds, ru \in UserDraws, rs \in SessionDraws :
           InitSession(e, ru, rs)
    \/ \E b \in HeartbeatBodies : Heartbeat(b[1], b[2])
    \/ \E b \in TrackEntryBodies : TrackEntry(b[1], b[2])
    \/ Snapshot
    \/ Admin
    \/ Cleanup
    \/ Tick
    \/ TickDay

Spec == Init /\ [][Next]_vars

(* The same server with TrackEntry arriving only in a batch, within the    *)
(* first hour of the first day.                                            *)
NextPar ==
    \/ \E e \in {Absent} \cup KnownUserIds, ru \in UserDraws, rs \in SessionDraws :
           InitSession(e, ru, rs)
    \/ \E b \in HeartbeatBodies : Heartbeat(b[1], b[2])
    \/ \E b \in TrackEntryBodies : TrackEntryBefore(b[1], b[2])
    \/ \E u \in KnownUserIds, n \in 1..MaxBurst : IssueBurst(u, n)
    \/ ServeBurst
    \/ Snapshot
    \/ Cleanup
    \/ Tick

SpecPar == Init /\ [][NextPar]_vars

(* The server as time goes by, serving the requests that write session    *)
(* records or carry a user's activity (TrackEntry with the default         *)
(* entryCount of 1): the clock advances while it can,                      *)
(* and the setInterval callback, which the timer fires every hour for as   *)
(* long as the process lives, runs again whenever it has something to      *)
(* remove.                                                                 *)
NextLive ==
    \/ \E e \in {Absent} \cup KnownUserIds, ru \in UserDraws, rs \in SessionDraws :
           InitSession(e, ru, rs)
    \/ \E b \in HeartbeatBodies : Heartbeat(b[1], b[2])
    \/ \E u \in KnownUserIds : TrackEntry(u, 1)
    \/ Cleanup
    \/ Tick
    \/ TickDay

SpecLive ==
    /\ Init /\ [][NextLive]_vars
    /\ WF_vars(Tick) /\ WF_vars(TickDay) /\ WF_vars(Cleanup)

----------------------------------------------------------------------------
(* C1: a successful TrackEntry(userId, entryCount = N) raises totalEntries *)
(* by exactly N and the entry count of today's DayStats row by exactly N   *)
(* (a row that is absent counts as 0 and exists afterwards), and the       *)
(* totalEntries it returns is the new total.                               *)
C1_TrackEntryAddsN ==
    [][(resp'.req.op = "TrackEntry" /\ resp'.status = 200) =>
          LET n == resp'.req.entryCount
              today == toDateString(now)
              before == IF today \in DOMAIN dailyStats
                        THEN dailyStats[today].entries ELSE 0
          IN /\ ~Falsy(resp'.req.userId)
             /\ totalEntries' = totalEntries + n
             /\ today \in DOMAIN dailyStats'
             /\ dailyStats'[today].entries = before + n
             /\ resp'.body.totalEntries = totalEntries']_vars

\* a negative count tracked on a day without a row, after a count on the
\* day before: the new row holds -1 and the returned total is 0
C1_Witness ==
    /\ resp.req.op = "TrackEntry" /\ resp.status = 200
    /\ resp.req.entryCount = 0 - 1
    /\ resp.body.totalEntries = 0
    /\ toDateString(now) = 1
    /\ DOMAIN dailyStats = {0, 1}
    /\ dailyStats[1].entries = 0 - 1
    /\ dailyStats[0].entries = 1

(* C2: the TrackEntry(sameUserId, 1) requests of a batch, served in any    *)
(* order with InitSession, Heartbeat, Snapshot and Cleanup, leave          *)
(* totalEntries higher by exactly the number of requests served: when the  *)
(* batch of N is done, by exactly N.                                       *)
C2_NoLostUpdate ==
    burst.n > 0 => totalEntries = burst.base + (burst.n - inflight)

\* the whole batch is served, the last request after an InitSession that
\* came later than the batch
C2_Witness ==
    /\ burst.n = MaxBurst /\ inflight = 0
    /\ totalEntries = burst.base + MaxBurst
    /\ resp.req.op = "TrackEntry" /\ resp.body.totalEntries = totalEntries
    /\ \E u \in DOMAIN activeUsers : u[1] = "user" /\ u[3] > burst.at

(* C3, as claimed: an InitSession with no existingUserId raises totalUsers *)
(* by one and returns a userId that was not tracked before the call.       *)
C3_ReturnsUntrackedId ==
    [][(resp'.req.op = "InitSession" /\ resp'.req.userId = Absent) =>
          /\ totalUsers' = totalUsers + 1
          /\ resp'.body.userId \notin DOMAIN activeUsers]_vars

(* C3, amended: an InitSession with no existingUserId raises totalUsers by *)
(* one and returns an id made of a random component and the time of the    *)
(* call, which is tracked afterwards and differs from every id tracked     *)
(* before that does not carry the same time.                               *)
C3_MintsTimedId ==
    [][(resp'.req.op = "InitSession" /\ resp'.req.userId = Absent) =>
          LET id == resp'.body.userId IN
          /\ totalUsers' = totalUsers + 1
          /\ id[1] = "user" /\ id[2] \in Randoms /\ id[3] = now
          /\ id \in DOMAIN activeUsers'
          /\ \A u \in DOMAIN activeUsers : u[3] # now => u # id]_vars

\* two such calls at different times: two users counted, two ids tracked
C3_Witness ==
    /\ resp.req.op = "InitSession" /\ resp.req.userId = Absent
    /\ totalUsers = 2 /\ accepted = 2
    /\ Cardinality(DOMAIN activeUsers) = 2
    /\ \E u \in DOMAIN activeUsers : u[3] # now

C5_CleanupHorizons ==
    [][resp'.req.op = "Cleanup" =>
          /\ \A u \in DOMAIN activeUsers' :
                ~(activeUsers'[u].lastSeen < now - OneHour)
          /\ \A x \in DOMAIN userSessions' :
                ~(userSessions'[x].startTime < now - OneDay)
          /\ \A u \in DOMAIN activeUsers :
                activeUsers[u].lastSeen > now - OneHour =>
                    u \in DOMAIN activeUsers' /\ activeUsers'[u] = activeUsers[u]
          /\ \A x \in DOMAIN userSessions :
                userSessions[x].startTime > now - OneDay =>
                    x \in DOMAIN userSessions' /\ userSessions'[x] = userSessions[x]
          /\ DOMAIN activeUsers' \subseteq DOMAIN activeUsers
          /\ DOMAIN userSessions' \subseteq DOMAIN userSessions]_vars

\* sessions opened on two days; after Cleanup, 24 hours and 30 minutes after
\* the first was opened, only the second session and its user are left
C5_Witness ==
    /\ resp.req.op = "Cleanup"
    /\ now = OneDay + ThirtyMinutes
    /\ totalUsers = 2
    /\ DOMAIN dailyStats = {0, 1}
    /\ DOMAIN userSessions = {<<"session", 1, now>>}
    /\ DOMAIN activeUsers = {<<"user", 1, now>>}

(* C6: Heartbeat with an empty or absent userId or sessionId answers 400   *)
(* and changes no counter, no UserRecord, no SessionRecord and no DayStats.*)
C6_HeartbeatInvalidArgument ==
    [][(/\ resp'.req.op = "Heartbeat"
        /\ \/ resp'.req.userId \in {Absent, EmptyStr}
           \/ resp'.req.sessionId \in {Absent, EmptyStr}) =>
          /\ resp'.status = 400
          /\ totalEntries' = totalEntries /\ totalUsers' = totalUsers
          /\ activeUsers' = activeUsers /\ userSessions' = userSessions
          /\ dailyStats' = dailyStats]_vars

\* Heartbeat("", s1) is refused on a server that tracks records, and s1 is
\* not tracked
C6_Witness ==
    /\ resp.req.op = "Heartbeat" /\ resp.status = 400
    /\ resp.req.userId = EmptyStr
    /\ resp.req.sessionId \in ClientSessionIds
    /\ resp.req.sessionId \notin DOMAIN userSessions
    /\ EmptyStr \notin DOMAIN activeUsers
    /\ DOMAIN activeUsers # {} /\ DOMAIN userSessions # {}

(* C7: no Heartbeat, valid or not, changes totalUsers, totalEntries or a   *)
(* DayStats row.                                                           *)
C7_HeartbeatFrame ==
    [][resp'.req.op = "Heartbeat" =>
          /\ totalUsers' = totalUsers
          /\ totalEntries' = totalEntries
          /\ dailyStats' = dailyStats]_vars

\* an accepted Heartbeat of an unknown user on a day that has no row yet
C7_Witness ==
    /\ resp.req.op = "Heartbeat" /\ resp.status = 200
    /\ resp.req.userId \in DOMAIN activeUsers
    /\ activeUsers[resp.req.userId].lastSeen = now
    /\ toDateString(now) = 1
    /\ DOMAIN dailyStats = {0}
    /\ totalUsers = 0 /\ totalEntries = 1

C9_SnapshotFrame ==
    [][resp'.req.op = "Snapshot" =>
          /\ DOMAIN dailyStats' = DOMAIN dailyStats
          /\ dailyStats' = dailyStats
          /\ totalEntries' = totalEntries /\ totalUsers' = totalUsers
          /\ userSessions' = userSessions
          /\ DOMAIN activeUsers' \subseteq DOMAIN activeUsers
          /\ \A u \in DOMAIN activeUsers' : activeUsers'[u] = activeUsers[u]]_vars

\* a Snapshot on a day without a row, with a row for the day before: it
\* reports zero for today and no row for today exists
C9_Witness ==
    /\ resp.req.op = "Snapshot"
    /\ now \div OneDay = 1
    /\ DOMAIN dailyStats = {0}
    /\ resp.body.today = [entries |-> 0, uniqueUsers |-> 0]
    /\ resp.body.recentStats[6].uniqueUsers > 0
    /\ DOMAIN userSessions # {}

(* C10, as claimed: only Cleanup removes a UserRecord or a SessionRecord.  *)
C10_OnlyCleanupDeletes ==
    [][(\/ ~(DOMAIN activeUsers \subseteq DOMAIN activeUsers')
        \/ ~(DOMAIN userSessions \subseteq DOMAIN userSessions')) =>
          resp'.req.op = "Cleanup"]_vars

(* C10, amended: only Cleanup removes a SessionRecord, and only Cleanup    *)
(* and the active-user scan of Snapshot and of the admin view remove a     *)
(* UserRecord; the scan removes only records last seen 30 minutes or       *)
(* longer ago.  InitSession, Heartbeat and TrackEntry remove neither.      *)
C10_DeletedByCleanupOrScan ==
    [][/\ ~(DOMAIN userSessions \subseteq DOMAIN userSessions') =>
             resp'.req.op = "Cleanup"
       /\ ~(DOMAIN activeUsers \subseteq DOMAIN activeUsers') =>
             \/ resp'.req.op = "Cleanup"
             \/ /\ resp'.req.op \in {"Snapshot", "Admin"}
                /\ \A u \in DOMAIN activeUsers \ DOMAIN activeUsers' :
                      activeUsers[u].lastSeen <= now - ThirtyMinutes]_vars

\* after a Snapshot within the first hour a user of a tracked session is
\* not tracked any more, and an InitSession of a tracked user has kept its
\* earlier session
C10_Witness ==
    /\ resp.req.op = "Snapshot"
    /\ now <= OneHour
    /\ activeUsers = EmptyMap
    /\ Cardinality(DOMAIN userSessions) = 2
    /\ totalUsers = 1
    /\ \A x \in DOMAIN userSessions : userSessions[x].userId[1] = "user"

(* C11, as claimed: totalEntries never decreases, and the entry count of a *)
(* DayStats row that exists never decreases.                               *)
C11_Monotonic ==
    [][/\ totalEntries' >= totalEntries
       /\ \A d \in DOMAIN dailyStats :
             /\ d \in DOMAIN dailyStats'
             /\ dailyStats'[d].entries >= dailyStats[d].entries]_vars

(* C11, amended: totalEntries and the entry count of a DayStats row        *)
(* decrease only in an accepted TrackEntry whose entryCount is negative,   *)
(* and then only today's row decreases; every other step leaves each of    *)
(* them the same or higher, and no step removes a row.                     *)
C11_DecreaseOnlyByNegativeCount ==
    [][LET undo == /\ resp'.req.op = "TrackEntry" /\ resp'.status = 200
                   /\ resp'.req.entryCount < 0
       IN /\ totalEntries' < totalEntries => undo
          /\ undo => totalEntries' < totalEntries
          /\ \A d \in DOMAIN dailyStats :
                /\ d \in DOMAIN dailyStats'
                /\ dailyStats'[d].entries < dailyStats[d].entries =>
                      undo /\ d = toDateString(now)]_vars

\* one entry tracked and then taken back on the same day: the total and the
\* day's count are back at 0
C11_Witness ==
    /\ resp.req.op = "TrackEntry" /\ resp.status = 200
    /\ resp.req.entryCount = 0 - 1
    /\ accepted = 2
    /\ totalEntries = 0
    /\ DOMAIN dailyStats = {0}
    /\ dailyStats[0].entries = 0
    /\ totalUsers = 0

(* C12: TrackEntry with an empty or absent userId answers 400 and changes  *)
(* nothing: totalEntries, totalUsers, every DayStats row, every UserRecord *)
(* and every SessionRecord are as before.                                  *)
C12_TrackEntryInvalidArgument ==
    [][(/\ resp'.req.op = "TrackEntry"
        /\ resp'.req.userId \in {Absent, EmptyStr}) =>
          /\ resp'.status = 400
          /\ resp'.body.success = FALSE
          /\ totalEntries' = totalEntries /\ totalUsers' = totalUsers
          /\ dailyStats' = dailyStats
          /\ activeUsers' = activeUsers /\ userSessions' = userSessions]_vars

\* TrackEntry("", 1) is refused on a server with a user, a session and an
\* entry tracked on that day
C12_Witness ==
    /\ resp.req.op = "TrackEntry" /\ resp.status = 400
    /\ resp.req.userId = EmptyStr
    /\ resp.req.entryCount = MaxCount
    /\ totalEntries = 1
    /\ dailyStats[toDateString(now)].entries = 1
    /\ DOMAIN activeUsers # {} /\ DOMAIN userSessions # {}

(* C13: totalUsers never decreases and changes only in the new-user branch *)
(* of InitSession.  An InitSession whose existingUserId is absent, empty   *)
(* or not in the active-user mapping raises totalUsers by exactly 1 and    *)
(* returns an id minted in that call; an InitSession whose existingUserId  *)
(* is in the mapping returns that id and leaves totalUsers unchanged; no   *)
(* other step changes totalUsers.                                          *)
C13_TotalUsers ==
    [][LET e == resp'.req.userId
           id == resp'.body.userId
           known == e \in DOMAIN activeUsers
       IN /\ totalUsers' >= totalUsers
          /\ totalUsers' # totalUsers => resp'.req.op = "InitSession" /\ ~known
          /\ (resp'.req.op = "InitSession" /\ ~known) =>
                /\ totalUsers' = totalUsers + 1
                /\ id = <<"user", id[2], now>> /\ id[2] \in Randoms
                /\ id \in DOMAIN activeUsers'
          /\ (resp'.req.op = "InitSession" /\ known) =>
                /\ totalUsers' = totalUsers
                /\ id = e]_vars

\* an InitSession without an id and then an InitSession with the id it
\* returned: one user counted, the same id returned, two sessions
C13_Witness ==
    /\ resp.req.op = "InitSession"
    /\ resp.req.userId = resp.body.userId
    /\ resp.body.userId[1] = "user"
    /\ totalUsers = 1
    /\ DOMAIN activeUsers = {resp.body.userId}
    /\ Cardinality(DOMAIN userSessions) = 2

(* C14, as claimed: Snapshot at time t evicts exactly the UserRecords last *)
(* seen strictly before t - 30 minutes.  Every record of before is either  *)
(* kept unchanged and counted in activeUsers or evicted, and a record last *)
(* seen at t - 30 minutes or later is kept.                                *)
C14_EvictsStrictlyOlder ==
    [][resp'.req.op = "Snapshot" =>
          /\ DOMAIN activeUsers' \subseteq DOMAIN activeUsers
          /\ \A u \in DOMAIN activeUsers' : activeUsers'[u] = activeUsers[u]
          /\ resp'.body.activeUsers = Cardinality(DOMAIN activeUsers')
          /\ DOMAIN activeUsers \ DOMAIN activeUsers' =
                {u \in DOMAIN activeUsers :
                    activeUsers[u].lastSeen < now - ThirtyMinutes}
          /\ \A u \in DOMAIN activeUsers :
                activeUsers[u].lastSeen >= now - ThirtyMinutes =>
                    u \in DOMAIN activeUsers']_vars

\* the only user was last seen at 0; a Snapshot at exactly 30 minutes
\* reports no active user and the record is gone
C14_Witness ==
    /\ resp.req.op = "Snapshot"
    /\ now = ThirtyMinutes
    /\ totalUsers = 1 /\ accepted = 1
    /\ dailyStats[0].users = {<<"user", 1, 0>>}
    /\ userSessions[<<"session", 1, 0>>].startTime = now - ThirtyMinutes
    /\ activeUsers = EmptyMap
    /\ resp.body.activeUsers = 0

(* C15: TrackEntry never creates a UserRecord.  For a userId in the        *)
(* active-user mapping it sets that record's lastSeen to now and leaves    *)
(* its sessionId unchanged; for a userId not in the mapping the mapping is *)
(* the same afterwards, while totalEntries and today's DayStats row are    *)
(* still updated.  TrackEntry never creates or changes a SessionRecord.    *)
C15_TrackEntryNeverCreates ==
    [][resp'.req.op = "TrackEntry" =>
          LET u == resp'.req.userId
              n == resp'.req.entryCount
              today == toDateString(now)
              before == IF today \in DOMAIN dailyStats
                        THEN dailyStats[today].entries ELSE 0
          IN /\ userSessions' = userSessions
             /\ DOMAIN activeUsers' = DOMAIN activeUsers
             /\ \A x \in DOMAIN activeUsers \ {u} : activeUsers'[x] = activeUsers[x]
             /\ (resp'.status = 200 /\ u \in DOMAIN activeUsers) =>
                   /\ activeUsers'[u].lastSeen = now
                   /\ activeUsers'[u].sessionId = activeUsers[u].sessionId
             /\ (resp'.status = 200 /\ u \notin DOMAIN activeUsers) =>
                   /\ activeUsers' = activeUsers
                   /\ totalEntries' = totalEntries + n
                   /\ today \in DOMAIN dailyStats'
                   /\ dailyStats'[today].entries = before + n
                   /\ u \in dailyStats'[today].users]_vars

\* an entry tracked for a user id the server does not track, 30 minutes
\* after a session was opened: the entry and the user are counted for the
\* day and the mapping still holds the one other user, last seen at 0
C15_Witness ==
    /\ resp.req.op = "TrackEntry" /\ resp.status = 200
    /\ resp.req.userId \in ClientUserIds
    /\ resp.req.userId \notin DOMAIN activeUsers
    /\ now = ThirtyMinutes
    /\ totalEntries = 1
    /\ dailyStats[0].entries = 1
    /\ resp.req.userId \in dailyStats[0].users
    /\ DOMAIN activeUsers = {<<"user", 1, 0>>}
    /\ activeUsers[<<"user", 1, 0>>].lastSeen = 0
    /\ Cardinality(DOMAIN userSessions) = 1

(* C16: an accepted Heartbeat(userId, sessionId) leaves the SessionRecord  *)
(* of a sessionId that is tracked unchanged (startTime and userId), and    *)
(* for a sessionId that is not tracked inserts a SessionRecord with        *)
(* startTime = now for that userId; for a userId that is tracked it sets   *)
(* lastSeen to now and leaves the record's sessionId unchanged, also when  *)
(* the heartbeat carries another sessionId.  No other record changes.      *)
C16_HeartbeatKeepsRecords ==
    [][(resp'.req.op = "Heartbeat" /\ resp'.status = 200) =>
          LET u == resp'.req.userId
              s == resp'.req.sessionId
          IN /\ s \in DOMAIN userSessions => userSessions' = userSessions
             /\ s \notin DOMAIN userSessions =>
                   /\ DOMAIN userSessions' = DOMAIN userSessions \cup {s}
                   /\ userSessions'[s] = [userId |-> u, startTime |-> now]
                   /\ \A x \in DOMAIN userSessions :
                         userSessions'[x] = userSessions[x]
             /\ u \in DOMAIN activeUsers =>
                   /\ DOMAIN activeUsers' = DOMAIN activeUsers
                   /\ activeUsers'[u].lastSeen = now
                   /\ activeUsers'[u].sessionId = activeUsers[u].sessionId
                   /\ \A x \in DOMAIN activeUsers \ {u} :
                         activeUsers'[x] = activeUsers[x]]_vars

\* a user minted at 0 sends a heartbeat 30 minutes later with a session id
\* of its own making: the record keeps the session of 0 and is seen now,
\* the session of 0 keeps its start and the new session starts now
C16_Witness ==
    /\ resp.req.op = "Heartbeat" /\ resp.status = 200
    /\ now = ThirtyMinutes
    /\ resp.req.userId = <<"user", 1, 0>>
    /\ resp.req.sessionId \in ClientSessionIds
    /\ activeUsers[resp.req.userId] =
          [lastSeen |-> now, sessionId |-> <<"session", 1, 0>>]
    /\ userSessions[<<"session", 1, 0>>].startTime = 0
    /\ userSessions[resp.req.sessionId] =
          [userId |-> resp.req.userId, startTime |-> now]

(* C17: removing records never changes the aggregates.  Cleanup, Snapshot  *)
(* and the admin view leave totalEntries, totalUsers and every DayStats    *)
(* row unchanged, and in every step a user id that leaves the active-user  *)
(* mapping stays a member of the user set of every day it was recorded on. *)
C17_RemovalKeepsAggregates ==
    [][/\ resp'.req.op \in {"Cleanup", "Snapshot", "Admin"} =>
             /\ totalEntries' = totalEntries
             /\ totalUsers' = totalUsers
             /\ dailyStats' = dailyStats
       /\ \A u \in DOMAIN activeUsers \ DOMAIN activeUsers' :
             \A d \in DOMAIN dailyStats :
                u \in dailyStats[d].users =>
                   d \in DOMAIN dailyStats' /\ u \in dailyStats'[d].users]_vars

\* Cleanup on the second day, 24 hours and 30 minutes after a user opened
\* a session and tracked an entry: no record is left, and the first day
\* still counts the entry and the user
C17_Witness ==
    /\ resp.req.op = "Cleanup"
    /\ now = OneDay + ThirtyMinutes
    /\ activeUsers = EmptyMap /\ userSessions = EmptyMap
    /\ totalUsers = 1 /\ totalEntries = 1
    /\ DOMAIN dailyStats = {0}
    /\ dailyStats[0] = [entries |-> 1, users |-> {<<"user", 1, 0>>}]

(* C18: sessions are purged whatever the user does.  A Cleanup that runs   *)
(* more than 24 hours after the startTime of a SessionRecord removes it,   *)
(* no other step changes the startTime of a tracked session, and so, with  *)
(* the clock advancing and Cleanup running again and again, every          *)
(* SessionRecord whose 24 hours pass before the clock stops is eventually  *)
(* not tracked, also when heartbeats carrying its id arrive in between.    *)
C18_SessionsPurged ==
    /\ [][/\ resp'.req.op = "Cleanup" =>
                \A x \in DOMAIN userSessions :
                   userSessions[x].startTime + OneDay < now =>
                      x \notin DOMAIN userSessions'
          /\ \A x \in DOMAIN userSessions \cap DOMAIN userSessions' :
                userSessions'[x].startTime = userSessions[x].startTime]_vars
    /\ \A t \in {t \in 0..(MaxDay * OneDay + ThirtyMinutes - OneDay - 1) :
                     t % OneDay <= (IF toDateString(t) = 0
                                    THEN OneHour ELSE ThirtyMinutes)} :
          (\E x \in DOMAIN userSessions : userSessions[x].startTime = t)
             ~> (\A x \in DOMAIN userSessions : userSessions[x].startTime # t)

\* a session opened at 0, a heartbeat carrying it at the next midnight and
\* Cleanup 30 minutes later: the user is still tracked, the session is not
C18_Witness ==
    /\ resp.req.op = "Cleanup"
    /\ now = OneDay + ThirtyMinutes
    /\ userSessions = EmptyMap
    /\ DOMAIN activeUsers = {<<"user", 1, 0>>}
    /\ activeUsers[<<"user", 1, 0>>] =
          [lastSeen |-> OneDay, sessionId |-> <<"session", 1, 0>>]
    /\ accepted = 2 /\ totalEntries = 0
    /\ DOMAIN dailyStats = {0}

(* C19: in every reachable state totalEntries is the sum of the entry      *)
(* counts of all DayStats rows; every step changes totalEntries and that   *)
(* sum by the same amount, changes the entry count of a row only by the    *)
(* entryCount of a TrackEntry of that day, and removes no row.             *)
C19_TotalIsSumOfDays ==
    /\ [](LET RECURSIVE Sum(_)
              Sum(days) == IF days = {} THEN 0
                           ELSE LET d == CHOOSE x \in days : TRUE
                                IN dailyStats[d].entries + Sum(days \ {d})
          IN totalEntries = Sum(DOMAIN dailyStats))
    /\ [][/\ DOMAIN dailyStats \subseteq DOMAIN dailyStats'
          /\ \A d \in DOMAIN dailyStats' :
                LET before == IF d \in DOMAIN dailyStats
                              THEN dailyStats[d].entries ELSE 0
                    change == dailyStats'[d].entries - before
                IN /\ change # 0 =>
                         /\ resp'.req.op = "TrackEntry"
                         /\ change = resp'.req.entryCount
                         /\ totalEntries' = totalEntries + change
                         /\ d = toDateString(now)
                   /\ totalEntries' # totalEntries =>
                         d # toDateString(now) \/ change # 0]_vars

\* an entry tracked on each of two days: the total is 2, one per row
C19_Witness ==
    /\ DOMAIN dailyStats = {0, 1}
    /\ dailyStats[0].entries = 1
    /\ dailyStats[1].entries = 1
    /\ totalEntries = 2
    /\ resp.req.op = "TrackEntry" /\ resp.body.totalEntries = 2

(* C20, as claimed: in every reachable state the number of UserRecords is  *)
(* at most totalUsers, and so is the activeUsers value Snapshot reports.   *)
C20_ActiveAtMostTotal ==
    /\ Cardinality(DOMAIN activeUsers) <= totalUsers
    /\ resp.req.op = "Snapshot" => resp.body.activeUsers <= totalUsers

(* C20, amended: the activeUsers value Snapshot reports is the number of   *)
(* UserRecords left after its scan, and the number of UserRecords grows    *)
(* beyond totalUsers only by an accepted Heartbeat for a userId that is    *)
(* not tracked, which inserts one record and leaves totalUsers unchanged;  *)
(* every other step keeps or lowers the excess of records over totalUsers. *)
C20_ExcessOnlyByHeartbeat ==
    [][/\ resp'.req.op = "Snapshot" =>
             resp'.body.activeUsers = Cardinality(DOMAIN activeUsers')
       /\ Cardinality(DOMAIN activeUsers') - totalUsers'
             > Cardinality(DOMAIN activeUsers) - totalUsers =>
                /\ resp'.req.op = "Heartbeat" /\ resp'.status = 200
                /\ resp'.req.userId \notin DOMAIN activeUsers
                /\ DOMAIN activeUsers' = DOMAIN activeUsers \cup {resp'.req.userId}
                /\ totalUsers' = totalUsers]_vars

\* a heartbeat with a user id the client made up, then Snapshot: one
\* active user reported while totalUsers is 0
C20_Witness ==
    /\ resp.req.op = "Snapshot"
    /\ resp.body.activeUsers = 1
    /\ resp.body.totalUsers = 0
    /\ totalUsers = 0
    /\ DOMAIN activeUsers = ClientUserIds

====
